---- MODULE Spec2Model ----
(***************************************************************************)
(* Smart Box dashboard: the MQTT connection manager (MQTTService, the      *)
(* module-level singleton mqttService), the transport clients it creates   *)
(* with mqtt.connect, and the React hook useMQTT that drives it.           *)
(*                                                                         *)
(* JavaScript runs handlers to completion on one event loop, and the       *)
(* continuation of an awaited promise runs as a microtask before the next  *)
(* event.  So one action of this model is one event-loop task: a call made *)
(* by the UI or a transport event, together with every promise             *)
(* continuation it releases.                                               *)
(*                                                                         *)
(* The operations are written as functions from a world record (all the    *)
(* program's state) to a world record, so that one task can run several of *)
(* them in sequence (reconnect = disconnect; connect).                     *)
(***************************************************************************)
EXTENDS Integers, Sequences, FiniteSets, TLC

VARIABLES
    client,             \* MQTTService.client: 0 is null, else the id of a transport client
    isConnected,        \* MQTTService.isConnected
    reconnectAttempts,  \* MQTTService.reconnectAttempts
    messageHandlers,    \* MQTTService.messageHandlers: topic -> sequence of handlers
    nclients,           \* number of transport clients mqtt.connect has created
    tstate,             \* per transport client: its connection life cycle
    subs,               \* per transport client: topics it has been asked to subscribe to
    promise,            \* per transport client: the promise of the connect() that made it
    awaiter,            \* per transport client: who awaits that promise
    mounted,            \* the mounted useMQTT instance, 0 when the dashboard is not shown
    nmounts,            \* number of times the dashboard has been mounted
    connectionStatus,   \* the connectionStatus state of the mounted instance
    isSubscribed,       \* per hook instance: the isSubscribed ref
    smartBoxData,       \* the smartBoxData state of the mounted instance
    last,               \* the publish or sendWarning call of the step that led here (op),
                        \* what it returned (ret), and whether it handed a packet to a
                        \* transport client's publish() (sent)
    delivered           \* the handlers the step that led here invoked, in order, each with
                        \* the topic it was invoked with

vars == << client, isConnected, reconnectAttempts, messageHandlers, nclients, tstate,
           subs, promise, awaiter, mounted, nmounts, connectionStatus,
           isSubscribed, smartBoxData, last, delivered >>

----------------------------------------------------------------------------
(* Bounds *)

MaxClients == 2      \* transport clients created in one run
MaxMounts == 2       \* times the dashboard is mounted in one run
MaxApiClients == 1   \* connect() calls of a direct caller of the service in one run
MaxRegistered == 2   \* handler registrations a direct caller holds at one time
MaxAttempts == 6     \* cap of the reconnect counter in the model

Clients == 1..MaxClients
Instances == 1..MaxMounts

\* wall-clock readings (new Date()) at the arrival of a message
Times == { 1 }

----------------------------------------------------------------------------
(* Configuration: app/config/mqtt.ts *)

sensorData == "coolerbox/sensor/data"
warning == "smartbox/command/warning"
control == "smartbox/command/control"

\* Object.values(mqttTopics), in declaration order
mqttTopics == << sensorData, warning, control >>

\* a topic that is not in the configuration, for direct callers of the service
otherTopic == "other/topic"

Topics == { sensorData, warning, control, otherTopic }

maxReconnectAttempts == 5

Range(s) == { s[i] : i \in DOMAIN s }

\* `last` of a step that published nothing
NoCall == [op |-> "none", ret |-> FALSE, sent |-> FALSE]

\* the state a task starts in: the program's state, nothing called or invoked yet,
\* no exception in flight (thrown)
World ==
    [ client |-> client, isConnected |-> isConnected,
      reconnectAttempts |-> reconnectAttempts, messageHandlers |-> messageHandlers,
      nclients |-> nclients, tstate |-> tstate, subs |-> subs,
      promise |-> promise, awaiter |-> awaiter, mounted |-> mounted, nmounts |-> nmounts,
      connectionStatus |-> connectionStatus, isSubscribed |-> isSubscribed,
      smartBoxData |-> smartBoxData, last |-> NoCall, delivered |-> << >>,
      thrown |-> FALSE ]

Commit(w) ==
    /\ client' = w.client
    /\ isConnected' = w.isConnected
    /\ reconnectAttempts' = w.reconnectAttempts
    /\ messageHandlers' = w.messageHandlers
    /\ nclients' = w.nclients
    /\ tstate' = w.tstate
    /\ subs' = w.subs
    /\ promise' = w.promise
    /\ awaiter' = w.awaiter
    /\ mounted' = w.mounted
    /\ nmounts' = w.nmounts
    /\ connectionStatus' = w.connectionStatus
    /\ isSubscribed' = w.isSubscribed
    /\ smartBoxData' = w.smartBoxData
    /\ last' = w.last
    /\ delivered' = w.delivered

----------------------------------------------------------------------------
(* The transport client (the mqtt package), as far as the manager uses it. *)
(*                                                                         *)
(* tstate: "none" not created; "connecting" a connection attempt is under  *)
(* way; "connected"; "offline" closed, the reconnect timer is running;     *)
(* "ending" end() was called and the last close is still to come;          *)
(* "ended" no event will come from this client any more.                   *)
(* An error is reported while connecting or connected; the close that      *)
(* follows it is a separate event.  A connect timeout shows as a close, or *)
(* as an error and a close, depending on the version of the package.       *)

\* client.end(): no further reconnect; an open stream still reports its close
ClientEnd(w, c) ==
    IF c = 0 THEN w
    ELSE [w EXCEPT !.tstate[c] =
            CASE @ \in {"connecting", "connected"} -> "ending"
              [] @ = "offline" -> "ended"
              [] OTHER -> @]

\* client.subscribe(topic, callback)
ClientSubscribe(w, c, T) == [w EXCEPT !.subs[c] = @ \cup {T}]

\* client.unsubscribe(topic)
ClientUnsubscribe(w, c, T) == [w EXCEPT !.subs[c] = @ \ {T}]

\* client.publish(topic, messageStr, {retain}, callback)
ClientPublish(w, c, T) == [w EXCEPT !.last.sent = TRUE]

----------------------------------------------------------------------------
(* MQTTService: services/mqttService.ts *)

\* the first index of h in the array, 0 when absent (Array.indexOf, 1-based here)
IndexOf(seq, h) ==
    IF \E i \in DOMAIN seq : seq[i] = h
    THEN CHOOSE i \in DOMAIN seq : seq[i] = h /\ \A j \in 1..(i - 1) : seq[j] # h
    ELSE 0

\* handlers.splice(index, 1)
Splice(seq, i) == SubSeq(seq, 1, i - 1) \o SubSeq(seq, i + 1, Len(seq))

\* the promise executor of connect(): mqtt.connect creates the client, the listeners
\* are attached, the promise is pending and `who` awaits it
SvcConnect(w, who) ==
    LET c == w.nclients + 1 IN
    [w EXCEPT !.client = c, !.nclients = c, !.tstate[c] = "connecting",
              !.promise[c] = "pending", !.awaiter[c] = who]

RECURSIVE SubscribeEach(_, _, _)
SubscribeEach(w, c, topics) ==
    IF topics = << >> THEN w
    ELSE SubscribeEach(ClientSubscribe(w, c, Head(topics)), c, Tail(topics))

\* subscribeToTopics(): every topic of the configuration, on the current client
SubscribeToTopics(w) ==
    IF w.client = 0 \/ ~w.isConnected THEN w
    ELSE SubscribeEach(w, w.client, mqttTopics)

\* subscribe(topic, handler)
SvcSubscribe(w, T, h) ==
    LET w1 == [w EXCEPT !.messageHandlers[T] = Append(@, h)] IN
    IF w1.client # 0 /\ w1.isConnected THEN ClientSubscribe(w1, w1.client, T) ELSE w1

\* unsubscribe as it would be if it ignored its handler argument
SvcUnsubscribe_WholeTopic(w, T, h) ==
    LET w1 == [w EXCEPT !.messageHandlers[T] = << >>]
    IN  IF w1.client # 0 /\ w1.isConnected THEN ClientUnsubscribe(w1, w1.client, T) ELSE w1

\* unsubscribe(topic, handler?): h = 0 stands for a call without handler.  A topic
\* without entry and a topic with an empty array are the same to every reader
\* (get(topic) || []), and both are the empty sequence here.
SvcUnsubscribe(w, T, h) ==
    LET handlers == w.messageHandlers[T]
        index == IndexOf(handlers, h)
        w1 == IF h # 0
              THEN (IF index > 0
                    THEN [w EXCEPT !.messageHandlers[T] = Splice(handlers, index)]
                    ELSE w)
              ELSE [w EXCEPT !.messageHandlers[T] = << >>]
    IN  IF w1.client # 0 /\ w1.isConnected THEN ClientUnsubscribe(w1, w1.client, T) ELSE w1

\* what a payload is to JSON.stringify: a string is passed as it is, an object is
\* encoded, an object with a cycle makes JSON.stringify throw
PayloadKinds == { "string", "object", "cyclic" }

\* publish as it would be with the connection flag left out of its guard
SvcPublish_ClientOnly(w, T, kind) ==
    LET w0 == [w EXCEPT !.last.op = "publish"] IN
    IF w0.client = 0
    THEN [w0 EXCEPT !.last.ret = FALSE]
    ELSE IF kind = "cyclic"
    THEN [w0 EXCEPT !.last.ret = FALSE]
    ELSE [ClientPublish(w0, w0.client, T) EXCEPT !.last.ret = TRUE]

\* publish(topic, message, retain): the return value goes to `last`
SvcPublish(w, T, kind) ==
    LET w0 == [w EXCEPT !.last.op = "publish"] IN
    IF w0.client = 0 \/ ~w0.isConnected
    THEN [w0 EXCEPT !.last.ret = FALSE]
    ELSE IF kind = "cyclic"
    THEN [w0 EXCEPT !.last.ret = FALSE]
    ELSE [ClientPublish(w0, w0.client, T) EXCEPT !.last.ret = TRUE]

\* sendWarning(warningData)
SvcSendWarning(w) == SvcPublish(w, warning, "object")

\* disconnect()
SvcDisconnect(w) ==
    IF w.client # 0
    THEN [ClientEnd(w, w.client) EXCEPT
              !.client = 0, !.isConnected = FALSE,
              !.messageHandlers = [T \in Topics |-> << >>]]
    ELSE w

----------------------------------------------------------------------------
(* useMQTT, the data side: hooks/useMQTT.ts.  Temperatures and humidities   *)
(* are counted in thousandths, coordinates in ten-thousandths of a degree.  *)

NaN == 999999999

Abs(x) == IF x < 0 THEN 0 - x ELSE x

\* parseFloat(x.toFixed(2)): the nearest hundredth, a tie going away from zero
ToFixed2(x) ==
    LET n == ((Abs(x) + 5) \div 10) * 10 IN IF x < 0 THEN 0 - n ELSE n

\* parseFloat(coord.trim()) of one part of the gps string: a part is a number, a
\* number followed by other text (parseFloat reads the number), or other text
ParseFloat(part) == IF part.kind \in {"number", "prefix"} THEN part.val ELSE NaN

\* x || 0 for a number x
OrZero(x) == IF x = NaN \/ x = 0 THEN 0 ELSE x

getTemperatureStatus(temp) ==
    IF temp < 0 THEN "frozen"
    ELSE IF temp > 30000 THEN "danger"
    ELSE "safe"

getHumidityStatus(humidity) ==
    IF humidity < 30000 \/ humidity > 70000 THEN "danger" ELSE "safe"

\* parseGPSLocation(gpsString): split(',') gives the parts; a value that is not a
\* string (gps.present false: undefined, a number) throws inside the try and the
\* catch returns {0, 0}
parseGPSLocation(gps) ==
    IF ~gps.present THEN [latitude |-> 0, longitude |-> 0]
    ELSE LET coords == [i \in DOMAIN gps.parts |-> ParseFloat(gps.parts[i])]
             lat == IF Len(coords) >= 1 THEN coords[1] ELSE NaN
             lng == IF Len(coords) >= 2 THEN coords[2] ELSE NaN
         IN  [latitude |-> OrZero(lat), longitude |-> OrZero(lng)]

\* useState<SmartBoxData>(...) initial value
InitialSmartBoxData ==
    [ deviceId |-> "Unknown",
      temperature |-> [value |-> 0, unit |-> "C", status |-> "safe", lastUpdate |-> 0],
      humidity |-> [value |-> 0, unit |-> "%", status |-> "safe", lastUpdate |-> 0],
      location |-> [latitude |-> 0, longitude |-> 0, accuracy |-> 0, lastUpdate |-> 0],
      systemStatus |-> [online |-> FALSE, status |-> "inactive", lastUpdate |-> 0] ]

\* useState<MQTTConnectionStatus>(...) initial value; "null" is null, "" no client id
InitialConnectionStatus ==
    [ connected |-> FALSE, connecting |-> FALSE, error |-> "null", clientId |-> "" ]

\* setConnectionStatus(prev => f(prev)) of instance m, as the fields it sets: React
\* drops the update of an unmounted component.  The state variables hold the state
\* of the mounted instance, and the initial values while none is mounted.
SetConnectionStatus(w, m, status) ==
    IF w.mounted = m THEN [w EXCEPT !.connectionStatus = status] ELSE w

\* A parsed message: what JSON.parse gave (type "object", or "null" for the JSON
\* text null) or, for a payload that is not JSON, the payload text (type "string").
\* types gives the JavaScript type of each of the five properties, "undefined" for
\* a property that is absent (every property of a string is); the value of a
\* property counts only under the type the code expects of it.
Fields == { "device_id", "temperature", "humidity", "gps_location", "status" }

ExpectedTypes ==
    [ device_id |-> "string", temperature |-> "number", humidity |-> "number",
      gps_location |-> "string", status |-> "string" ]

\* the updater as it would be if it left the timestamp of the location group alone
SensorDataUpdater_LocationUnstamped(data, loc, t) ==
    [ deviceId |-> data.device_id,
      temperature |-> [ value |-> ToFixed2(data.temperature), unit |-> "C",
                        status |-> getTemperatureStatus(data.temperature),
                        lastUpdate |-> t ],
      humidity |-> [ value |-> ToFixed2(data.humidity), unit |-> "%",
                     status |-> getHumidityStatus(data.humidity),
                     lastUpdate |-> t ],
      location |-> [ latitude |-> loc.latitude, longitude |-> loc.longitude,
                     accuracy |-> 10, lastUpdate |-> 0 ],
      systemStatus |-> [ online |-> (data.status = "active"),
                         status |-> data.status, lastUpdate |-> t ] ]

\* the updater prevData => ({...}) of handleSensorData: toFixed is called on
\* data.temperature and data.humidity, and throws unless they are numbers
SensorDataUpdater(data, loc, t) ==
    [ deviceId |-> data.device_id,
      temperature |-> [ value |-> ToFixed2(data.temperature), unit |-> "C",
                        status |-> getTemperatureStatus(data.temperature),
                        lastUpdate |-> t ],
      humidity |-> [ value |-> ToFixed2(data.humidity), unit |-> "%",
                     status |-> getHumidityStatus(data.humidity),
                     lastUpdate |-> t ],
      location |-> [ latitude |-> loc.latitude, longitude |-> loc.longitude,
                     accuracy |-> 10, lastUpdate |-> t ],
      systemStatus |-> [ online |-> (data.status = "active"),
                         status |-> data.status, lastUpdate |-> t ] ]

\* handleSensorData(topic, data) of instance m, at wall-clock time t (lastUpdate 0
\* is 'Never').  Reading data.gps_location of null throws out of the handler
\* before anything is set.  React drops the update of
\* an unmounted instance.  An updater that throws does so when React renders,
\* after the task: `last` carries that to Render.
handleSensorData(w, m, data, t) ==
    IF data.type = "null" THEN [w EXCEPT !.thrown = TRUE]
    ELSE LET loc == parseGPSLocation(data.gps_location) IN
         IF w.mounted # m THEN w
         ELSE IF data.types.temperature # "number" \/ data.types.humidity # "number"
         THEN [w EXCEPT !.last.op = "updaterThrows"]
         ELSE [w EXCEPT !.smartBoxData = SensorDataUpdater(data, loc, t)]

\* a gps_location string "lat,lng" of two numbers
Gps(lat, lng) ==
    [ present |-> TRUE,
      parts |-> << [kind |-> "number", val |-> lat], [kind |-> "number", val |-> lng] >> ]

\* a value that is not a string where gps_location is expected
NoGps == [ present |-> FALSE, parts |-> << >> ]

\* the object of a well-formed CoolerBoxSensorData payload
Reading(id, temp, hum, gps, status) ==
    [ type |-> "object", types |-> ExpectedTypes,
      device_id |-> id, temperature |-> temp, humidity |-> hum,
      gps_location |-> gps, status |-> status ]

\* a payload on the wire: JSON text of a value, or text that is not JSON
Json(value) == [ json |-> TRUE, value |-> value ]

\* the payload text as a string value: none of the five properties is defined
TextValue ==
    [ type |-> "string", types |-> [f \in Fields |-> "undefined"],
      device_id |-> "undefined", temperature |-> 0, humidity |-> 0,
      gps_location |-> NoGps, status |-> "undefined" ]

NotJson == [ json |-> FALSE, value |-> TextValue ]

\* JSON.parse(messageStr) inside its try, with the catch that falls back to the text
JsonParse(message) == IF message.json THEN message.value ELSE TextValue

\* inbound payloads of the sensor topic used by the connection life cycle
Readings ==
    { Json(Reading("smartbox_001", 2500, 87200, Gps(-62088, 1068456), "active")) }

----------------------------------------------------------------------------
(* Message dispatch and the promise of connect() *)

\* handlers are function references: the handleSensorData of hook instance m is m,
\* the two handlers of a direct caller of the service come after them
HookHandler(m) == m
ApiHandlers == { MaxMounts + 1, MaxMounts + 2 }

\* of the two handlers of a direct caller, the second throws whenever it is invoked
ThrowingHandlers == { MaxMounts + 2 }

\* handler(topic, parsedMessage): the handler runs and returns or throws
Call(w, h, T, data, t) ==
    LET w0 == [w EXCEPT !.delivered = Append(@, << T, h >>)]
    IN  IF h \in Instances THEN handleSensorData(w0, h, data, t)
        ELSE IF h \in ThrowingHandlers THEN [w0 EXCEPT !.thrown = TRUE]
        ELSE w0

\* the body of the forEach as it would be without its try and catch
InvokeHandler_NoCatch(w, h, T, data, t) == Call(w, h, T, data, t)

\* the body of the forEach: try { handler(topic, parsedMessage) } catch (error)
\* { console.error(...) }
InvokeHandler(w, h, T, data, t) == [Call(w, h, T, data, t) EXCEPT !.thrown = FALSE]

\* handlers.forEach(...): an exception out of the body ends the loop
RECURSIVE ForEachHandler(_, _, _, _, _)
ForEachHandler(w, handlers, T, data, t) ==
    IF handlers = << >> \/ w.thrown THEN w
    ELSE ForEachHandler(InvokeHandler(w, Head(handlers), T, data, t),
                        Tail(handlers), T, data, t)

\* handleMessage as it would be if it called only the first handler of the topic
handleMessage_FirstOnly(w, T, message, t) ==
    LET handlers == w.messageHandlers[T]
    IN  IF handlers = << >> THEN w
        ELSE InvokeHandler(w, Head(handlers), T, JsonParse(message), t)

\* handleMessage(topic, message): the outer try and catch keeps every exception in
handleMessage(w, T, message, t) ==
    LET parsedMessage == JsonParse(message)
        handlers == w.messageHandlers[T]
    IN  [ForEachHandler(w, handlers, T, parsedMessage, t) EXCEPT !.thrown = FALSE]

\* initializeMQTT after `await mqttService.connect()`: ok is TRUE when the promise
\* resolved (with true), FALSE when it rejected (the catch block)
InitContinue(w, m, ok) ==
    IF ok
    THEN LET w1 == SetConnectionStatus(w, m,
                     [w.connectionStatus EXCEPT !.connected = TRUE,
                          !.connecting = FALSE, !.clientId = "smart-box-web"])
         IN  IF ~w1.isSubscribed[m]
             THEN [SvcSubscribe(w1, sensorData, HookHandler(m)) EXCEPT
                       !.isSubscribed[m] = TRUE]
             ELSE w1
    ELSE SetConnectionStatus(w, m,
             [w.connectionStatus EXCEPT !.connected = FALSE,
                  !.connecting = FALSE, !.error = "message"])

\* reconnect after `await mqttService.connect()`
ReconnectContinue(w, m, ok) ==
    IF ok
    THEN LET w1 == SetConnectionStatus(w, m,
                     [w.connectionStatus EXCEPT !.connected = TRUE,
                          !.connecting = FALSE, !.clientId = "smart-box-web"])
         IN  IF ~w1.isSubscribed[m]
             THEN [SvcSubscribe(w1, sensorData, HookHandler(m)) EXCEPT
                       !.isSubscribed[m] = TRUE]
             ELSE w1
    ELSE SetConnectionStatus(w, m,
             [w.connectionStatus EXCEPT !.connected = FALSE,
                  !.connecting = FALSE, !.error = "message"])

\* who awaits a connect(): initializeMQTT or reconnect of a hook instance, or a
\* direct caller of the service, whose continuation touches nothing of the program
NoOne == [kind |-> "none", inst |-> 0]
DirectCaller == [kind |-> "direct", inst |-> 0]

Continue(w, who, ok) ==
    CASE who.kind = "init" -> InitContinue(w, who.inst, ok)
      [] who.kind = "reconnect" -> ReconnectContinue(w, who.inst, ok)
      [] OTHER -> w

\* resolve(true): a settled promise stays as it is
Resolve(w, c) ==
    IF w.promise[c] # "pending" THEN w
    ELSE Continue([w EXCEPT !.promise[c] = "resolved"], w.awaiter[c], TRUE)

\* reject(error)
Reject(w, c) ==
    IF w.promise[c] # "pending" THEN w
    ELSE Continue([w EXCEPT !.promise[c] = "rejected"], w.awaiter[c], FALSE)

\* this.client.on('connect', ...) of client c
OnConnectListener(w, c) ==
    LET w1 == [w EXCEPT !.isConnected = TRUE, !.reconnectAttempts = 0]
    IN  Resolve(SubscribeToTopics(w1), c)

\* the error listener as it would be without its reject(error)
OnErrorListener_NoReject(w, c) == [w EXCEPT !.isConnected = FALSE]

\* this.client.on('error', ...) of client c
OnErrorListener(w, c) == Reject([w EXCEPT !.isConnected = FALSE], c)

\* this.client.on('close', ...) of client c
OnCloseListener(w, c) == [w EXCEPT !.isConnected = FALSE]

\* this.client.on('reconnect', ...) of client c
OnReconnectListener(w, c) ==
    LET w1 == [w EXCEPT !.reconnectAttempts = @ + 1]
    IN  IF w1.reconnectAttempts >= maxReconnectAttempts
        THEN ClientEnd(w1, w1.client)
        ELSE w1

\* this.client.on('message', ...) of client c
OnMessageListener(w, c, T, message, t) == handleMessage(w, T, message, t)

----------------------------------------------------------------------------
(* useMQTT, the connection side *)

\* the dashboard mounts: fresh state, then the effect runs initializeMQTT up to its await
hookMount(w) ==
    LET m == w.nmounts + 1
        w1 == [w EXCEPT !.mounted = m, !.nmounts = m,
                        !.connectionStatus = InitialConnectionStatus,
                        !.isSubscribed[m] = FALSE,
                        !.smartBoxData = InitialSmartBoxData]
        w2 == SetConnectionStatus(w1, m,
                  [w1.connectionStatus EXCEPT !.connecting = TRUE, !.error = "null"])
    IN  SvcConnect(w2, [kind |-> "init", inst |-> m])

\* the dashboard unmounts: the cleanup of the effect runs, and React discards the
\* state of the instance
hookCleanup(w) ==
    LET m == w.mounted
        w1 == IF w.isSubscribed[m]
              THEN [SvcUnsubscribe(w, sensorData, HookHandler(m)) EXCEPT
                        !.isSubscribed[m] = FALSE]
              ELSE w
    IN  [w1 EXCEPT !.mounted = 0,
                   !.connectionStatus = InitialConnectionStatus,
                   !.smartBoxData = InitialSmartBoxData]

\* React renders after the task.  An updater of handleSensorData that throws makes
\* the render of the dashboard throw: the dashboard is taken off the screen, the
\* cleanup of its effect runs and its state is discarded.
Render(w) ==
    IF w.last.op = "updaterThrows"
    THEN [hookCleanup(w) EXCEPT !.last.op = "renderError"]
    ELSE w

\* reconnect() up to its second await: `await mqttService.disconnect()` yields once
\* to the microtask queue, and no event comes in between
hookReconnect(w) ==
    LET m == w.mounted
        w1 == SetConnectionStatus(w, m,
                  [w.connectionStatus EXCEPT !.connecting = TRUE, !.error = "null"])
    IN  SvcConnect(SvcDisconnect(w1), [kind |-> "reconnect", inst |-> m])

\* disconnect()
hookDisconnect(w) ==
    LET m == w.mounted
        w1 == IF w.isSubscribed[m]
              THEN [SvcUnsubscribe(w, sensorData, HookHandler(m)) EXCEPT
                        !.isSubscribed[m] = FALSE]
              ELSE w
    IN  SetConnectionStatus(SvcDisconnect(w1), m, InitialConnectionStatus)

\* the object resetData() passes to setSmartBoxData
ResetSmartBoxData ==
    [ deviceId |-> "Unknown",
      temperature |-> [value |-> 0, unit |-> "C", status |-> "safe", lastUpdate |-> 0],
      humidity |-> [value |-> 0, unit |-> "%", status |-> "safe", lastUpdate |-> 0],
      location |-> [latitude |-> 0, longitude |-> 0, accuracy |-> 0, lastUpdate |-> 0],
      systemStatus |-> [online |-> FALSE, status |-> "inactive", lastUpdate |-> 0] ]

\* resetData as it would be if it kept the device id
hookResetData_KeepsDevice(w) ==
    [w EXCEPT !.smartBoxData =
        [ResetSmartBoxData EXCEPT !.deviceId = w.smartBoxData.deviceId]]

\* resetData()
hookResetData(w) == [w EXCEPT !.smartBoxData = ResetSmartBoxData]

\* sendWarning(type, message, severity): the return value goes to `last`
hookSendWarning(w) ==
    LET m == w.mounted IN
    IF ~w.connectionStatus.connected
    THEN [w EXCEPT !.last.op = "useMQTT.sendWarning", !.last.ret = FALSE]
    ELSE [SvcPublish(w, warning, "object") EXCEPT
              !.last.op = "useMQTT.sendWarning", !.last.ret = TRUE]

----------------------------------------------------------------------------
(* Initial state: the module has been loaded, nothing is mounted *)

Init ==
    /\ client = 0
    /\ isConnected = FALSE
    /\ reconnectAttempts = 0
    /\ messageHandlers = [T \in Topics |-> << >>]
    /\ nclients = 0
    /\ tstate = [c \in Clients |-> "none"]
    /\ subs = [c \in Clients |-> {}]
    /\ promise = [c \in Clients |-> "none"]
    /\ awaiter = [c \in Clients |-> NoOne]
    /\ mounted = 0
    /\ nmounts = 0
    /\ connectionStatus = InitialConnectionStatus
    /\ isSubscribed = [m \in Instances |-> FALSE]
    /\ smartBoxData = InitialSmartBoxData
    /\ last = NoCall
    /\ delivered = << >>

----------------------------------------------------------------------------
(* Events of a transport client *)

TransportConnect(c) ==
    /\ tstate[c] = "connecting"
    /\ Commit(OnConnectListener([World EXCEPT !.tstate[c] = "connected"], c))

TransportError(c) ==
    /\ tstate[c] \in {"connecting", "connected"}
    /\ Commit(OnErrorListener(World, c))

TransportClose(c) ==
    /\ tstate[c] \in {"connecting", "connected", "ending"}
    /\ Commit(OnCloseListener(
           [World EXCEPT !.tstate[c] = IF @ = "ending" THEN "ended" ELSE "offline"], c))

TransportReconnect(c) ==
    /\ tstate[c] = "offline"
    /\ reconnectAttempts < MaxAttempts
    /\ Commit(OnReconnectListener([World EXCEPT !.tstate[c] = "connecting"], c))

\* client c delivers a message of topic T with payload `message` at wall-clock time t
TransportMessageOf(c, T, message, t) ==
    /\ tstate[c] = "connected"
    /\ T \in subs[c]
    /\ Commit(Render(OnMessageListener(World, c, T, message, t)))

TransportMessage(c) ==
    \E T \in Topics, message \in Readings, t \in Times :
        TransportMessageOf(c, T, message, t)

Transport ==
    \E c \in Clients :
        \/ TransportConnect(c)
        \/ TransportError(c)
        \/ TransportClose(c)
        \/ TransportReconnect(c)
        \/ TransportMessage(c)

----------------------------------------------------------------------------
(* The dashboard and its user *)

Mount ==
    /\ mounted = 0
    /\ nmounts < MaxMounts
    /\ nclients < MaxClients
    /\ Commit(hookMount(World))

Unmount ==
    /\ mounted # 0
    /\ Commit(hookCleanup(World))

Reconnect ==
    /\ mounted # 0
    /\ nclients < MaxClients
    /\ Commit(hookReconnect(World))

Disconnect ==
    /\ mounted # 0
    /\ Commit(hookDisconnect(World))

ResetData ==
    /\ mounted # 0
    /\ Commit(hookResetData(World))

SendWarning ==
    /\ mounted # 0
    /\ Commit(hookSendWarning(World))

Next ==
    \/ Mount
    \/ Unmount
    \/ Reconnect
    \/ Disconnect
    \/ ResetData
    \/ SendWarning
    \/ Transport

Spec == Init /\ [][Next]_vars

----------------------------------------------------------------------------
(* A direct caller of the service: any call of the public interface, in any *)
(* order, except that it keeps to the rule that connect() is not called    *)
(* while the service holds a client (it calls disconnect() first).         *)

ApiTopics == { sensorData, otherTopic }

\* the number of handler registrations of the direct caller
Registered == Len(messageHandlers[sensorData]) + Len(messageHandlers[otherTopic])

ApiConnect ==
    /\ client = 0
    /\ nclients < MaxApiClients
    /\ Commit(SvcConnect(World, DirectCaller))

ApiSubscribe ==
    \E T \in ApiTopics, h \in ApiHandlers :
        /\ Registered < MaxRegistered
        /\ Commit(SvcSubscribe(World, T, h))

ApiUnsubscribe ==
    \E T \in ApiTopics, h \in ApiHandlers \cup {0} :
        /\ Commit(SvcUnsubscribe(World, T, h))

ApiPublish ==
    \E T \in ApiTopics, kind \in PayloadKinds :
        /\ Commit(SvcPublish(World, T, kind))

ApiSendWarning ==
    /\ Commit(SvcSendWarning(World))

ApiDisconnect ==
    /\ Commit(SvcDisconnect(World))

SvcNext ==
    \/ ApiConnect
    \/ ApiSubscribe
    \/ ApiUnsubscribe
    \/ ApiPublish
    \/ ApiSendWarning
    \/ ApiDisconnect
    \/ Transport

SvcSpec == Init /\ [][SvcNext]_vars

----------------------------------------------------------------------------
(* The dashboard and the utility functions: routes/dashboard.tsx, utils.     *)
(* The dashboard classifies smartBoxData.temperature.value and               *)
(* smartBoxData.humidity.value for the status badges and the warning text.   *)

\* Dashboard: const temperatureStatus = useMemo(...)
temperatureStatus(temperature) ==
    IF temperature <= 0 THEN [cls |-> "frozen", label |-> "Frozen"]
    ELSE IF temperature > 0 /\ temperature <= 4000
    THEN [cls |-> "safe", label |-> "Safe Point"]
    ELSE [cls |-> "danger", label |-> "Danger"]

\* Dashboard: const humidityStatus = useMemo(...)
humidityStatus(humidity) ==
    IF humidity >= 85000 THEN [cls |-> "safe", label |-> "Safe Point"]
    ELSE [cls |-> "danger", label |-> "Danger"]

\* Dashboard: the effect on smartBoxData.location, as the location it puts on the
\* map (currentLocation; accuracy 0 is null) and the text it shows with it
LocationEffect(location) ==
    IF location.latitude # 0 /\ location.longitude # 0
    THEN [ currentLocation |-> [ lat |-> location.latitude, lng |-> location.longitude,
                                 accuracy |-> 10 ],
           locationText |-> "Device Location (MQTT)" ]
    ELSE [ currentLocation |-> [ lat |-> -62088, lng |-> 1068456, accuracy |-> 0 ],
           locationText |-> "Default Location (No GPS Data)" ]

\* utils: export function getTemperatureStatus(temperature)
utilsGetTemperatureStatus(temperature) ==
    IF temperature <= 0 THEN [cls |-> "frozen", label |-> "Frozen"]
    ELSE IF temperature > 0 /\ temperature <= 4000
    THEN [cls |-> "safe", label |-> "Safe Point"]
    ELSE [cls |-> "danger", label |-> "Danger"]

\* utils: export function getHumidityStatus(humidity)
utilsGetHumidityStatus(humidity) ==
    IF humidity >= 85000 THEN [cls |-> "safe", label |-> "Safe Point"]
    ELSE [cls |-> "danger", label |-> "Danger"]

----------------------------------------------------------------------------
(* The data path: the dashboard is mounted and unmounted, the broker         *)
(* delivers payloads of the sensor topic of every shape, the user resets the *)
(* data.                                                                     *)

\* temperatures and humidities around the thresholds of the classifications
TempValues == { -1000, -1, 0, 1, 4000, 4001, 5000, 30000, 30001 }
HumValues == { 29999, 30000, 50000, 70000, 70001, 84999, 85000, 90000 }

\* gps_location strings: "1.0,2.0", "0,106", "not-a-number,106", "1.5abc,2", "5"
GpsStrings ==
    { Gps(10000, 20000),
      Gps(0, 1060000),
      [ present |-> TRUE,
        parts |-> << [kind |-> "text", val |-> 0], [kind |-> "number", val |-> 1060000] >> ],
      [ present |-> TRUE,
        parts |-> << [kind |-> "prefix", val |-> 15000], [kind |-> "number", val |-> 20000] >> ],
      [ present |-> TRUE, parts |-> << [kind |-> "number", val |-> 50000] >> ] }

ValidValues ==
    { Reading("smartbox_001", temp, hum, Gps(10000, 20000), "active") :
          temp \in TempValues, hum \in HumValues }
        \cup { Reading("smartbox_001", 2500, 87200, gps, "active") : gps \in GpsStrings }
        \cup { Reading("smartbox_002", 2500, 87200, Gps(10000, 20000), status) :
                   status \in { "inactive", "error" } }

\* a payload object in which property f is absent (ty = "undefined") or has a type
\* other than the expected one
Malformed(f, ty) ==
    LET r == Reading("smartbox_001", 2500, 87200, Gps(10000, 20000), "active")
        other == IF ty = "undefined" THEN "undefined" ELSE "not a string"
    IN  [r EXCEPT !.types[f] = ty,
                  !.device_id = IF f = "device_id" THEN other ELSE @,
                  !.temperature = IF f = "temperature" THEN 0 ELSE @,
                  !.humidity = IF f = "humidity" THEN 0 ELSE @,
                  !.gps_location = IF f = "gps_location" THEN NoGps ELSE @,
                  !.status = IF f = "status" THEN other ELSE @]

\* the JSON text null
NullValue == [TextValue EXCEPT !.type = "null"]

InvalidValues ==
    { Malformed(f, "undefined") : f \in Fields }
        \cup { Malformed(f, IF ExpectedTypes[f] = "number" THEN "string" ELSE "number") :
                   f \in Fields }
        \cup { NullValue }

DataMessages == { Json(v) : v \in ValidValues \cup InvalidValues } \cup { NotJson }

\* wall-clock readings at the arrival of these payloads
DataTimes == { 1, 2 }

DataMessage(c) ==
    \E message \in DataMessages, t \in DataTimes :
        TransportMessageOf(c, sensorData, message, t)

DataNext ==
    \/ Mount
    \/ Unmount
    \/ ResetData
    \/ \E c \in Clients : TransportConnect(c) \/ DataMessage(c)

DataSpec == Init /\ [][DataNext]_vars

----------------------------------------------------------------------------
(* Properties *)

Alive(c) == tstate[c] \in {"connecting", "connected", "offline"}

StatusIsError ==
    /\ ~connectionStatus.connected
    /\ ~connectionStatus.connecting
    /\ connectionStatus.error # "null"

\* C1: deferred subscription. When a connect() succeeds, every topic for which a
\* handler was registered before that moment has a transport subscription on the
\* client, so that the handler receives the later messages of the topic.
C1_DeferredSubscription ==
    [][ \A c \in Clients :
          (promise[c] = "pending" /\ promise'[c] = "resolved")
          => \A T \in Topics : messageHandlers[T] # << >> => T \in subs'[c] ]_vars

\* C2: at most one transport client is alive (created, and not ended) at any time.
C2_OneClientAlive == Cardinality({ c \in Clients : Alive(c) }) <= 1

\* C3: every connect() settles, so the status of useMQTT does not stay connecting:
\* while connecting is true there is a connect() of the mounted instance whose
\* promise is pending on a client that can still report connect or error.
C3_ConnectSettles ==
    (mounted # 0 /\ connectionStatus.connecting)
    => \E c \in Clients :
          /\ promise[c] = "pending"
          /\ awaiter[c].inst = mounted
          /\ Alive(c)

\* C4: a transport error before connect success rejects the connect() promise and,
\* for the mounted instance that awaits it, leaves the connection status at error:
\* connected false, connecting false, error non-null.
C4_FailureSurfaced ==
    [][ \A c \in Clients :
          (promise[c] = "pending" /\ TransportError(c))
          => /\ promise'[c] = "rejected"
             /\ ~isConnected'
             /\ (mounted # 0 /\ awaiter[c].inst = mounted) => StatusIsError' ]_vars

C4_Witness ==
    \E c \in Clients :
        /\ promise[c] = "rejected"
        /\ mounted # 0
        /\ awaiter[c].inst = mounted
        /\ StatusIsError

\* C5: once the reconnect counter has reached the maximum, no transport client is
\* left that could attempt another reconnect, and the connection status is error.
C5_ReconnectCap ==
    reconnectAttempts >= maxReconnectAttempts
    => /\ \A c \in Clients : ~Alive(c)
       /\ mounted # 0 => StatusIsError

\* C6: when a transport client whose connect() succeeded reports close or error,
\* the status of the mounted useMQTT instance is not connected afterwards.
C6_StatusFollowsTransport ==
    [][ \A c \in Clients :
          (promise[c] = "resolved" /\ mounted # 0
              /\ (TransportClose(c) \/ TransportError(c)))
          => ~connectionStatus'.connected ]_vars

\* C7: while the dashboard is unmounted the manager has been disconnected, and no
\* sensor handler of an unmounted instance is in the registry (none is left at
\* unmount, none is added by a connect() that resolves later).
C7_UnmountCancels ==
    /\ (mounted = 0 /\ nmounts > 0) => client = 0
    /\ \A m \in Instances :
          m # mounted => \A T \in Topics : HookHandler(m) \notin Range(messageHandlers[T])

\* C8: publish() called while the manager is not connected (no client, or the
\* connection flag false) returns false and hands nothing to the transport.
C8_PublishWhenDisconnected ==
    (last.op = "publish" /\ (client = 0 \/ ~isConnected))
    => (~last.ret /\ ~last.sent)

C8_Witness ==
    /\ last.op = "publish"
    /\ client # 0
    /\ ~isConnected
    /\ ~last.ret

\* C9: useMQTT.sendWarning returns true only if the command was handed to the
\* transport, and returns false when the manager is not connected.
C9_SendWarningReportsFailure ==
    last.op = "useMQTT.sendWarning"
    => /\ last.ret => last.sent
       /\ (client = 0 \/ ~isConnected) => ~last.ret

\* C10: disconnect(), called in any state, leaves the transport ended, the handler
\* registry empty for every topic and the manager disconnected.
C10_DisconnectResets ==
    LET w == SvcDisconnect(World) IN
    /\ w.client = 0
    /\ ~w.isConnected
    /\ \A T \in Topics : w.messageHandlers[T] = << >>
    /\ client # 0 => w.tstate[client] \in {"ending", "ended"}

\* C11: disconnect() is idempotent. Called twice in a row in any state, the second
\* call changes nothing, and the state after either call is disconnected: no
\* client, the connection flag false.
C11_DisconnectIdempotent ==
    LET w1 == SvcDisconnect(World)
        w2 == SvcDisconnect(w1)
    IN  /\ w2 = w1
        /\ w1.client = 0
        /\ ~w1.isConnected

\* C16: when a connect() succeeds, the transport client holds a subscription for
\* exactly one topic, the inbound sensor-data topic, and none for the warning and
\* control topics the manager publishes to.
C16_OneInboundTopic ==
    [][ \A c \in Clients :
          (promise[c] = "pending" /\ promise'[c] = "resolved")
          => subs'[c] = { sensorData } ]_vars

\* C17: the connection status of useMQTT is one of disconnected, connecting,
\* connected, error: connected and connecting are never both true, and error is
\* non-null only when both are false.
C17_StatusEncoding ==
    /\ ~(connectionStatus.connected /\ connectionStatus.connecting)
    /\ connectionStatus.error # "null"
           => (~connectionStatus.connected /\ ~connectionStatus.connecting)

\* the registrations of h in a handler list, and the list without them
Count(seq, h) == Len(SelectSeq(seq, LAMBDA g : g = h))
Without(seq, h) == SelectSeq(seq, LAMBDA g : g # h)

C15_UnsubscribeFrame ==
    \A T \in Topics, h \in ApiHandlers \cup Instances :
        LET one == SvcUnsubscribe(World, T, h)
            all == SvcUnsubscribe(World, T, 0)
            before == messageHandlers[T]
        IN  /\ Without(one.messageHandlers[T], h) = Without(before, h)
            /\ Count(one.messageHandlers[T], h)
                   = IF Count(before, h) > 0 THEN Count(before, h) - 1 ELSE 0
            /\ all.messageHandlers[T] = << >>
            /\ \A U \in Topics \ {T} :
                   /\ one.messageHandlers[U] = messageHandlers[U]
                   /\ all.messageHandlers[U] = messageHandlers[U]
            /\ (client = 0 \/ ~isConnected) => (one.subs = subs /\ all.subs = subs)

C15_Witness ==
    \E T \in Topics :
        /\ Len(messageHandlers[T]) = 2
        /\ messageHandlers[T][1] # messageHandlers[T][2]
        /\ client # 0 /\ ~isConnected
        /\ SvcUnsubscribe(World, T, messageHandlers[T][1]).messageHandlers[T]
               = << messageHandlers[T][2] >>

\* a payload that has the five properties of CoolerBoxSensorData with their types
Valid(value) == value.type = "object" /\ value.types = ExpectedTypes

\* the sensor handler of the mounted dashboard is registered
Handled == mounted # 0 /\ HookHandler(mounted) \in Range(messageHandlers[sensorData])

\* C12: an inbound message whose payload lacks device_id, temperature, humidity,
\* gps_location or status, or has one of them with the wrong type, leaves
\* smartBoxData exactly as it was and throws nothing to the UI.
C12_InvalidPayloadRejected ==
    [][ \A c \in Clients, message \in DataMessages, t \in DataTimes :
          (TransportMessageOf(c, sensorData, message, t)
              /\ message.json /\ ~Valid(message.value))
          => (smartBoxData' = smartBoxData /\ last'.op # "renderError") ]_vars

\* C13: an inbound message whose payload is not valid JSON is discarded: no
\* handler is invoked with it and smartBoxData does not change.
C13_NotJsonDiscarded ==
    [][ \A c \in Clients, t \in DataTimes :
          TransportMessageOf(c, sensorData, NotJson, t)
          => (delivered' = << >> /\ smartBoxData' = smartBoxData) ]_vars

\* C18: the temperature classification stored for a handled reading of temperature
\* t is frozen when t < 0, safe when 0 <= t <= 4 and danger when t > 4.
C18_TemperatureClassification ==
    [][ \A c \in Clients, message \in DataMessages, t \in DataTimes :
          (TransportMessageOf(c, sensorData, message, t)
              /\ Handled /\ message.json /\ Valid(message.value))
          => smartBoxData'.temperature.status
                 = (IF message.value.temperature < 0 THEN "frozen"
                    ELSE IF message.value.temperature <= 4000 THEN "safe"
                    ELSE "danger") ]_vars

\* C19: the humidity classification stored for a handled reading of humidity h is
\* safe when h >= 85 and danger otherwise.
C19_HumidityClassification ==
    [][ \A c \in Clients, message \in DataMessages, t \in DataTimes :
          (TransportMessageOf(c, sensorData, message, t)
              /\ Handled /\ message.json /\ Valid(message.value))
          => smartBoxData'.humidity.status
                 = (IF message.value.humidity >= 85000 THEN "safe" ELSE "danger") ]_vars

\* C20: one classification rule everywhere: for a handled reading, the labels the
\* handler stores equal the labels the dashboard computes from the stored values
\* and the labels of the utility functions for the values of the reading.
C20_UniformClassification ==
    [][ \A c \in Clients, message \in DataMessages, t \in DataTimes :
          (TransportMessageOf(c, sensorData, message, t)
              /\ Handled /\ message.json /\ Valid(message.value))
          => /\ smartBoxData'.temperature.status
                    = temperatureStatus(smartBoxData'.temperature.value).cls
             /\ smartBoxData'.temperature.status
                    = utilsGetTemperatureStatus(message.value.temperature).cls
             /\ smartBoxData'.humidity.status
                    = humidityStatus(smartBoxData'.humidity.value).cls
             /\ smartBoxData'.humidity.status
                    = utilsGetHumidityStatus(message.value.humidity).cls ]_vars

\* a gps_location string of two comma-separated numbers
TwoNumbers(gps) ==
    /\ gps.present
    /\ Len(gps.parts) = 2
    /\ \A i \in 1..2 : gps.parts[i].kind = "number"

\* C21: the stored location of a handled reading is the latitude and longitude of
\* its gps_location when that is a string of two comma-separated numbers, and the
\* whole fallback {0, 0} when it is missing or either part is not a number; the
\* parsing never throws.
C21_GpsParsing ==
    [][ \A c \in Clients, message \in DataMessages, t \in DataTimes :
          (TransportMessageOf(c, sensorData, message, t)
              /\ Handled /\ message.json /\ message.value.type = "object"
              /\ message.value.types.temperature = "number"
              /\ message.value.types.humidity = "number")
          => LET gps == message.value.gps_location IN
             /\ last'.op # "renderError"
             /\ smartBoxData'.location.latitude
                    = (IF TwoNumbers(gps) THEN gps.parts[1].val ELSE 0)
             /\ smartBoxData'.location.longitude
                    = (IF TwoNumbers(gps) THEN gps.parts[2].val ELSE 0) ]_vars

\* the reading {temperature -1, humidity 90, gps "1.0,2.0", status active}
ExampleReading == Reading("smartbox_001", -1000, 90000, Gps(10000, 20000), "active")

\* C22: after a valid combined reading is handled the state reflects that reading:
\* deviceId is its device_id, location its gps_location, systemStatus.status its
\* status, online is true exactly when the status is active; for the reading
\* {-1, 90, "1.0,2.0", active} the temperature is frozen, the humidity safe, the
\* location {1.0, 2.0} and online true.
C22_ReadingReflected ==
    [][ \A c \in Clients, message \in DataMessages, t \in DataTimes :
          (TransportMessageOf(c, sensorData, message, t)
              /\ Handled /\ message.json /\ Valid(message.value)
              /\ TwoNumbers(message.value.gps_location))
          => LET data == message.value
                 state == smartBoxData'
             IN  /\ state.deviceId = data.device_id
                 /\ state.location.latitude = data.gps_location.parts[1].val
                 /\ state.location.longitude = data.gps_location.parts[2].val
                 /\ state.systemStatus.status = data.status
                 /\ state.systemStatus.online = (data.status = "active")
                 /\ data = ExampleReading
                        => /\ state.temperature.status = "frozen"
                           /\ state.humidity.status = "safe"
                           /\ state.location.latitude = 10000
                           /\ state.location.longitude = 20000
                           /\ state.systemStatus.online ]_vars

\* C30: the dashboard shows the device's reported location whenever the stored
\* location is not the no-data fallback {0, 0}, and the default location only when
\* latitude and longitude are both 0.
C30_DashboardLocation ==
    mounted # 0
    => LET location == smartBoxData.location
           shown == LocationEffect(location)
       IN  /\ ~(location.latitude = 0 /\ location.longitude = 0)
                  => /\ shown.locationText = "Device Location (MQTT)"
                     /\ shown.currentLocation.lat = location.latitude
                     /\ shown.currentLocation.lng = location.longitude
           /\ shown.locationText = "Default Location (No GPS Data)"
                  => (location.latitude = 0 /\ location.longitude = 0)

\* the four lastUpdate values of a SmartBoxData
Stamps(data) ==
    << data.temperature.lastUpdate, data.humidity.lastUpdate,
       data.location.lastUpdate, data.systemStatus.lastUpdate >>

\* C23: in every state the four lastUpdate values are equal; handling a valid
\* reading sets all four to its capture time and resetData sets all four to
\* 'Never'; and no timestamp changes in a step in which no handler was invoked and
\* which is not a reset or the dashboard coming on or going off the screen.
C23_Timestamps ==
    /\ [](/\ \A i \in 1..4 : Stamps(smartBoxData)[i] = Stamps(smartBoxData)[1]
          /\ Handled
                => \A message \in DataMessages, t \in DataTimes :
                      (message.json /\ Valid(message.value))
                      => Stamps(Render(OnMessageListener(
                                    World, client, sensorData, message, t)).smartBoxData)
                             = << t, t, t, t >>
          /\ mounted # 0
                => Stamps(hookResetData(World).smartBoxData) = << 0, 0, 0, 0 >>)
    /\ [][ Stamps(smartBoxData') # Stamps(smartBoxData)
              => (delivered' # << >> \/ ResetData \/ Mount \/ Unmount) ]_vars

C23_Witness ==
    /\ Stamps(smartBoxData) = << 2, 2, 2, 2 >>
    /\ Len(delivered) = 1

\* C29: resetData() sets smartBoxData to exactly the defaults of the mount
\* (deviceId Unknown, values 0, status safe and inactive, online false, every
\* lastUpdate 'Never'), leaves the connection status, the handler registration and
\* the transport as they are, and called twice gives what it gives called once.
C29_ResetData ==
    mounted # 0
    => LET w == hookResetData(World) IN
       /\ w.smartBoxData = InitialSmartBoxData
       /\ w.smartBoxData.deviceId = "Unknown"
       /\ w.smartBoxData.temperature.value = 0 /\ w.smartBoxData.humidity.value = 0
       /\ w.smartBoxData.temperature.status = "safe"
       /\ w.smartBoxData.humidity.status = "safe"
       /\ w.smartBoxData.systemStatus.status = "inactive"
       /\ ~w.smartBoxData.systemStatus.online
       /\ Stamps(w.smartBoxData) = << 0, 0, 0, 0 >>
       /\ w.connectionStatus = connectionStatus
       /\ w.messageHandlers = messageHandlers /\ w.isSubscribed = isSubscribed
       /\ w.client = client /\ w.isConnected = isConnected
       /\ w.tstate = tstate /\ w.subs = subs
       /\ hookResetData(w) = w

C29_Witness ==
    /\ Handled
    /\ connectionStatus.connected
    /\ smartBoxData.deviceId = "smartbox_002"
    /\ hookResetData(World).smartBoxData.deviceId = "Unknown"

\* C24: when the connect() of a useMQTT.reconnect() succeeds, the sensor handler of
\* the dashboard is in the registry exactly once, so that the next reading on the
\* sensor topic reaches it.
C24_ReconnectRestoresData ==
    [][ \A c \in Clients :
          (promise[c] = "pending" /\ promise'[c] = "resolved"
              /\ awaiter[c].kind = "reconnect" /\ awaiter[c].inst = mounted
              /\ mounted' = mounted)
          => Count(messageHandlers'[sensorData], HookHandler(mounted)) = 1 ]_vars

\* C25: an event of a superseded transport client (one that is not the manager's
\* current client: ended by disconnect() or replaced by a later connect()) changes
\* neither the connection flag nor the reconnect counter and delivers no message.
C25_StaleClientEvents ==
    [][ \A c \in Clients :
          (c # client /\ tstate[c] # "none"
              /\ (\/ TransportConnect(c)
                  \/ TransportError(c)
                  \/ TransportClose(c)
                  \/ TransportReconnect(c)
                  \/ TransportMessage(c)))
          => /\ isConnected' = isConnected
             /\ reconnectAttempts' = reconnectAttempts
             /\ delivered' = << >> ]_vars

\* C26: unsubscribe(T, h) called while connected keeps the transport subscription
\* of T as long as another handler of T is left, and drops it only when T has no
\* handler left.
C26_UnsubscribeKeepsOthers ==
    \A T \in Topics, h \in ApiHandlers \cup Instances :
        (client # 0 /\ isConnected /\ T \in subs[client]
            /\ h \in Range(messageHandlers[T])
            /\ \E g \in Range(messageHandlers[T]) : g # h)
        => LET w == SvcUnsubscribe(World, T, h)
           IN  w.messageHandlers[T] # << >> => T \in w.subs[client]

\* C27: the reconnect counter is 0 whenever connect() creates a transport client,
\* and it never exceeds the maximum of 5.
C27_ReconnectBudget ==
    [][ /\ nclients' # nclients => reconnectAttempts' = 0
        /\ reconnectAttempts' <= maxReconnectAttempts ]_vars

\* C28: a handler that throws does not stop the delivery of a message: every
\* handler of the topic, also those registered after it, is invoked, the exception
\* does not leave handleMessage, and the manager's connection state and registry
\* stay as they are.
C28_ThrowingHandler ==
    [][ \A c \in Clients, T \in Topics, message \in Readings, t \in Times :
          (TransportMessageOf(c, T, message, t)
              /\ \E h \in ThrowingHandlers : h \in Range(messageHandlers[T]))
          => /\ delivered' = [i \in DOMAIN messageHandlers[T] |->
                                  << T, messageHandlers[T][i] >>]
             /\ ~handleMessage(World, T, message, t).thrown
             /\ messageHandlers' = messageHandlers
             /\ client' = client
             /\ isConnected' = isConnected
             /\ reconnectAttempts' = reconnectAttempts ]_vars

C28_Witness ==
    /\ Len(delivered) = 2
    /\ delivered[1][2] \in ThrowingHandlers
    /\ delivered[2][2] \notin ThrowingHandlers

====
